---- MODULE Spec2Model ----
(***************************************************************************)
(* Model of src/src/rag_functions.py: the upload validator allowed_files,  *)
(* the metric counter file_check_num, the batch extractor                  *)
(* extract_contents_from_doc and the chunker chunk_document.               *)
(*                                                                         *)
(* A Python str or bytes value is a sequence of one-character strings.     *)
(* The character "#" in a file's data stands for bytes that make the file  *)
(* malformed: bytes that are not UTF-8 for a .txt file, a broken document  *)
(* structure for a .pdf or .pptx file.                                     *)
(***************************************************************************)
EXTENDS Integers, Sequences, FiniteSets, TLC

VARIABLES
    env,                    \* os.environ: the two document-analysis settings
    files,                  \* the batch of UploadedFile handles (name, data)
    pos,                    \* the stream position of each handle
    dirExists,              \* whether temp_dir exists
    disk,                   \* temp_dir: artifact path -> text of the file
    pc,                     \* where extract_contents_from_doc stands
    idx,                    \* the loop's position in files
    extracted_file_paths,   \* the list the loop builds
    ret,                    \* the list the last call returned
    log,                    \* what the current call has logged, per file
    check,                  \* the last call of file_check_num and its result
    cpc,                    \* concurrent calls: each call's position
    ctext,                  \* concurrent calls: each call's extracted text
    cret,                   \* concurrent calls: each call's returned list
    writes,                 \* concurrent calls: the order of the writes
    filename,               \* allowed_files: its argument
    allowed,                \* allowed_files: its result
    text,                   \* chunk_document: its arguments
    chunk_size,
    chunk_overlap,
    chunks                  \* chunk_document: its result

extractVars == <<env, files, pos, dirExists, disk, pc, idx,
                 extracted_file_paths, ret, log, check>>
concVars == <<cpc, ctext, cret, writes>>
allowedVars == <<filename, allowed>>
chunkVars == <<text, chunk_size, chunk_overlap, chunks>>
vars == <<extractVars, concVars, allowedVars, chunkVars>>

----------------------------------------------------------------------------
(* Bounds of the model.                                                    *)

MaxBatch == 2       \* files in a batch
MaxNameLen == 5     \* characters of a filename given to allowed_files
MaxTextLen == 4     \* characters of a text given to chunk_document

----------------------------------------------------------------------------
(* Strings.                                                                *)

Range(s) == {s[i] : i \in 1..Len(s)}

SeqsUpTo(S, n) == UNION {[1..k -> S] : k \in 0..n}

\* str.lower on one character, over the letters the model uses
LowerChar(c) ==
    CASE c = "P" -> "p"
      [] c = "D" -> "d"
      [] c = "F" -> "f"
      [] c = "T" -> "t"
      [] c = "X" -> "x"
      [] OTHER -> c

lower(s) == [i \in 1..Len(s) |-> LowerChar(s[i])]

\* str.rfind("."): the index of the last ".", 0 when there is none
rfind_dot(s) ==
    LET D == {i \in 1..Len(s) : s[i] = "."}
    IN  IF D = {} THEN 0 ELSE CHOOSE i \in D : \A j \in D : j <= i

\* str.rsplit(".", 1): one piece when there is no ".", else two
rsplit_dot(s) ==
    LET d == rfind_dot(s)
    IN  IF d = 0 THEN <<s>>
        ELSE <<SubSeq(s, 1, d - 1), SubSeq(s, d + 1, Len(s))>>

----------------------------------------------------------------------------
(* allowed_files                                                           *)

allowed_files_list == {<<"p", "d", "f">>, <<"t", "x", "t">>, <<"p", "p", "t", "x">>}

\* the same test without .lower(): "a.PDF" is then refused
allowed_files_no_lower(fn) ==
    /\ "." \in Range(fn)
    /\ rsplit_dot(fn)[2] \in allowed_files_list

allowed_files(fn) ==
    /\ "." \in Range(fn)
    /\ lower(rsplit_dot(fn)[2]) \in allowed_files_list

----------------------------------------------------------------------------
(* The uploaded files, the environment and the external collaborators.     *)

Unset == "<unset>"                       \* os.getenv returns None
CredValues == {Unset, "", "set"}

\* an UploadedFile: the name it was uploaded under and the bytes of its stream
File(n, d) == [name |-> n, data |-> d]

Valid == <<"a", "\n", "b">>
Malformed == <<"#">>

UploadedFiles ==
    { File(<<"a", ".", "t", "x", "t">>, Valid),
      File(<<"a", ".", "t", "x", "t">>, Malformed),
      File(<<"a", ".", "t", "x", "t">>, <<>>),
      File(<<"a", ".", "p", "d", "f">>, Valid),
      File(<<"b", ".", "p", "p", "t", "x">>, Valid),
      File(<<"b", ".", "p", "p", "t", "x">>, Malformed),
      File(<<"b", ".", "T", "X", "T">>, Valid),
      File(<<"a", ".", "d", "o", "c">>, Valid),
      File(<<"a">>, Valid) }

Batches == SeqsUpTo(UploadedFiles, MaxBatch)

\* what PdfReader(...).pages and Presentation(...).slides may count
UnitCounts == {0, 2}

\* what the document-analysis service may recognise: pages of lines
Line(c) == <<c>>
AnalyzeResults == { <<>>, << <<Line("a")>>, <<Line("b")>> >> }

\* what a slide deck may hold: slides of shapes, a shape with or without text
TextShape(c) == [has_text |-> TRUE, text |-> <<c>>]
Picture == [has_text |-> FALSE, text |-> <<>>]
Presentations == { <<>>, << <<TextShape("A")>>, <<Picture, TextShape("B")>> >> }

temp_dir == "tmp"

\* bytes.decode("utf-8") raises on bytes that are not UTF-8
Decodable(bytes) == "#" \notin Range(bytes)

\* PdfReader / Presentation raise on an empty, cut or malformed document
Parseable(bytes, f) == bytes = f.data /\ bytes # <<>> /\ "#" \notin Range(bytes)

\* file.read(): the bytes from the stream position to the end
read(f, p) == SubSeq(f.data, p + 1, Len(f.data))

\* len(s.splitlines()) for a text whose only line break is "\n"
RECURSIVE CountNewlines(_)
CountNewlines(s) ==
    IF s = <<>> THEN 0
    ELSE (IF Head(s) = "\n" THEN 1 ELSE 0) + CountNewlines(Tail(s))

splitlines_len(s) ==
    CountNewlines(s) + (IF s # <<>> /\ s[Len(s)] # "\n" THEN 1 ELSE 0)

----------------------------------------------------------------------------
(* file_check_num                                                          *)

NoCheck == [file |-> 0, value |-> 0, raised |-> FALSE, logged |-> "none"]

\* chunk_document not called yet
NotCalled == [state |-> "pending", value |-> <<>>]

Checked(i, v, l) == [file |-> i, value |-> v, raised |-> FALSE, logged |-> l]

file_check_num(i) ==
    /\ pc \in {"idle", "returned"}
    /\ i \in 1..Len(files)
    /\ LET f == files[i]
           parts == rsplit_dot(f.name)
           bytes == read(f, pos[i])
           atEnd == [pos EXCEPT ![i] = Len(f.data)]
           atStart == [pos EXCEPT ![i] = 0]
       IN  IF Len(parts) < 2
           THEN \* line 61 stands before the try: [1] raises IndexError
                /\ check' = [file |-> i, value |-> 0, raised |-> TRUE, logged |-> "none"]
                /\ UNCHANGED pos
           ELSE LET file_ext == lower(parts[2]) IN
                IF file_ext \in {<<"p", "d", "f">>, <<"p", "p", "t", "x">>}
                THEN IF Parseable(bytes, f)
                     THEN /\ \E n \in UnitCounts : check' = Checked(i, n, "none")
                          /\ pos' = atStart
                     ELSE /\ check' = Checked(i, -1, "error")
                          /\ pos' = atEnd
                ELSE IF file_ext = <<"t", "x", "t">>
                THEN IF Decodable(bytes)
                     THEN /\ check' = Checked(i, splitlines_len(bytes), "none")
                          /\ pos' = atStart
                     ELSE /\ check' = Checked(i, -1, "error")
                          /\ pos' = atEnd
                ELSE /\ check' = Checked(i, -1, "unsupported")
                     /\ UNCHANGED pos
    /\ UNCHANGED <<env, files, dirExists, disk, pc, idx, extracted_file_paths, ret, log>>
    /\ UNCHANGED <<concVars, allowedVars, chunkVars>>

----------------------------------------------------------------------------
(* extract_contents_from_doc                                               *)

\* Python's truth value of os.getenv's result
Truthy(v) == v # Unset /\ v # ""

\* the test with "and": one missing setting alone no longer stops the call
credentials_missing_both(e, k) == ~Truthy(e) /\ ~Truthy(k)

credentials_missing(e, k) == ~Truthy(e) \/ ~Truthy(k)

\* werkzeug's secure_filename, on names of letters and dots: strip("._")
RECURSIVE lstrip_dots(_)
lstrip_dots(s) ==
    IF s # <<>> /\ Head(s) \in {".", "_"} THEN lstrip_dots(Tail(s)) ELSE s

RECURSIVE rstrip_dots(_)
rstrip_dots(s) ==
    IF s # <<>> /\ s[Len(s)] \in {".", "_"}
    THEN rstrip_dots(SubSeq(s, 1, Len(s) - 1)) ELSE s

secure_filename(n) == rstrip_dots(lstrip_dots(n))

\* os.path.splitext: split at the last dot unless only dots precede it
splitext(p) ==
    LET d == rfind_dot(p)
    IN  IF d > 0 /\ \E k \in 1..(d - 1) : p[k] # "."
        THEN <<SubSeq(p, 1, d - 1), SubSeq(p, d, Len(p))>>
        ELSE <<p, <<>>>>

\* f"{base}_extracted.txt" under temp_dir
artifact_path(base) == <<temp_dir>> \o base \o <<"_extracted.txt">>

\* open(file_path, "w"): the file is created or cut to nothing
open_w(d, p) == [q \in (DOMAIN d) \cup {p} |-> IF q = p THEN <<>> ELSE d[q]]

\* f.write(t) and the flush at close, from the handle's own offset 0
write_flush(d, p, t) ==
    [d EXCEPT ![p] = t \o SubSeq(d[p], Len(t) + 1, Len(d[p]))]

\* extracted_content += line.content + "\n", page by page
RECURSIVE lines_text(_)
lines_text(ls) ==
    IF ls = <<>> THEN <<>> ELSE Head(ls) \o <<"\n">> \o lines_text(Tail(ls))

RECURSIVE pages_text(_)
pages_text(pages) ==
    IF pages = <<>> THEN <<>>
    ELSE lines_text(Head(pages)) \o pages_text(Tail(pages))

\* if hasattr(shape, "text"): extracted_content += shape.text + "\n"
RECURSIVE shapes_text(_)
shapes_text(shapes) ==
    IF shapes = <<>> THEN <<>>
    ELSE (IF Head(shapes).has_text THEN Head(shapes).text \o <<"\n">> ELSE <<>>)
         \o shapes_text(Tail(shapes))

RECURSIVE slides_text(_)
slides_text(slides) ==
    IF slides = <<>> THEN <<>>
    ELSE shapes_text(Head(slides)) \o slides_text(Tail(slides))

Entry(i, ev, p, t) == [file |-> i, event |-> ev, path |-> p, text |-> t]

\* the except clause with break in place of continue: the batch stops
except_break(i) == Len(files) + 1

\* except Exception: log, then continue with the next file
except_continue(i) == i + 1

\* the path put in front of the list instead of at its end
insert_path(paths, p) == <<p>> \o paths

\* extracted_file_paths.append(file_path)
append_path(paths, p) == Append(paths, p)

extract_begin ==
    /\ pc = "idle"
    /\ IF credentials_missing(env.endpoint, env.key)
       THEN /\ log' = <<Entry(0, "credentials_missing", <<>>, <<>>)>>
            /\ pc' = "returned"
            /\ ret' = <<>>
            /\ UNCHANGED <<dirExists, idx, extracted_file_paths>>
       ELSE /\ dirExists' = TRUE
            /\ log' = <<>>
            /\ extracted_file_paths' = <<>>
            /\ idx' = 1
            /\ pc' = "loop"
            /\ UNCHANGED ret
    /\ UNCHANGED <<env, files, pos, disk, check>>
    /\ UNCHANGED <<concVars, allowedVars, chunkVars>>

InLoop == pc = "loop" /\ idx <= Len(files)
CurBase == splitext(secure_filename(files[idx].name))[1]
CurExt == lower(splitext(secure_filename(files[idx].name))[2])
Frame == /\ UNCHANGED <<env, files, dirExists, pc, ret, check>>
         /\ UNCHANGED <<concVars, allowedVars, chunkVars>>

\* an exception anywhere in the try block
Caught(newpos, newdisk) ==
    /\ pos' = newpos
    /\ disk' = newdisk
    /\ log' = Append(log, Entry(idx, "error", <<>>, <<>>))
    /\ idx' = except_continue(idx)
    /\ UNCHANGED extracted_file_paths

\* lines 165-174: open, write, close, append
Save(content, newpos) ==
    LET file_path == artifact_path(CurBase)
        opened == open_w(disk, file_path)
    IN  \/ Caught(newpos, disk)
        \/ \E k \in 0..(Len(content) - 1) :
              Caught(newpos, write_flush(opened, file_path, SubSeq(content, 1, k)))
        \/ /\ pos' = newpos
           /\ disk' = write_flush(opened, file_path, content)
           /\ log' = Append(log, Entry(idx, "saved", file_path, content))
           /\ extracted_file_paths' = append_path(extracted_file_paths, file_path)
           /\ idx' = idx + 1

extract_pdf ==
    /\ InLoop
    /\ CurExt = <<".", "p", "d", "f">>
    /\ LET atEnd == [pos EXCEPT ![idx] = Len(files[idx].data)]
       IN  \/ Caught(atEnd, disk)
           \/ \E r \in AnalyzeResults : Save(pages_text(r), atEnd)
    /\ Frame

extract_txt ==
    /\ InLoop
    /\ CurExt = <<".", "t", "x", "t">>
    /\ LET bytes == read(files[idx], pos[idx])
           atEnd == [pos EXCEPT ![idx] = Len(files[idx].data)]
       IN  IF Decodable(bytes) THEN Save(bytes, atEnd) ELSE Caught(atEnd, disk)
    /\ Frame

extract_pptx ==
    /\ InLoop
    /\ CurExt = <<".", "p", "p", "t", "x">>
    /\ \E p \in 0..Len(files[idx].data) :
          LET moved == [pos EXCEPT ![idx] = p]
          IN  IF Parseable(files[idx].data, files[idx])
              THEN \E deck \in Presentations : Save(slides_text(deck), moved)
              ELSE Caught(moved, disk)
    /\ Frame

skip_unsupported ==
    /\ InLoop
    /\ CurExt \notin {<<".", "p", "d", "f">>, <<".", "t", "x", "t">>,
                      <<".", "p", "p", "t", "x">>}
    /\ log' = Append(log, Entry(idx, "unsupported", <<>>, <<>>))
    /\ idx' = idx + 1
    /\ UNCHANGED <<pos, disk, extracted_file_paths>>
    /\ Frame

extract_return ==
    /\ pc = "loop"
    /\ idx > Len(files)
    /\ pc' = "returned"
    /\ ret' = extracted_file_paths
    /\ UNCHANGED <<env, files, pos, dirExists, disk, idx, extracted_file_paths, log, check>>
    /\ UNCHANGED <<concVars, allowedVars, chunkVars>>

\* A batch of handles, its streams at their start, an empty temp_dir. The
\* batch is extracted once; file_check_num is called on its handles any
\* number of times, before and after the extraction.
Init ==
    /\ env \in [endpoint : CredValues, key : CredValues]
    /\ files \in Batches
    /\ pos = [i \in 1..Len(files) |-> 0]
    /\ dirExists = FALSE
    /\ disk = <<>>
    /\ pc = "idle"
    /\ idx = 0
    /\ extracted_file_paths = <<>>
    /\ ret = <<>>
    /\ log = <<>>
    /\ check = NoCheck
    /\ cpc = <<>> /\ ctext = <<>> /\ cret = <<>> /\ writes = <<>>
    /\ filename = <<>> /\ allowed = <<>>
    /\ text = <<>> /\ chunk_size = 0 /\ chunk_overlap = 0
    /\ chunks = NotCalled

Next ==
    \/ \E i \in 1..Len(files) : file_check_num(i)
    \/ extract_begin
    \/ extract_pdf
    \/ extract_txt
    \/ extract_pptx
    \/ skip_unsupported
    \/ extract_return

Spec == Init /\ [][Next]_vars

----------------------------------------------------------------------------
(* Properties of extract_contents_from_doc and file_check_num (Spec).      *)

ConfigPresent == Truthy(env.endpoint) /\ Truthy(env.key)

Events(ev) == {k \in 1..Len(log) : log[k].event = ev}

IsTxtUpload(f) ==
    /\ Len(rsplit_dot(f.name)) = 2
    /\ lower(rsplit_dot(f.name)[2]) = <<"t", "x", "t">>
    /\ lower(splitext(secure_filename(f.name))[2]) = <<".", "t", "x", "t">>

\* C1: when a file of the batch fails (its read, parse, analysis or write
\* raises), the call still returns, the failed file adds no path to the
\* result, and every later file is processed: each has been logged, and one
\* that was saved has its artifact on disk and its path in the result.
C1_FailureIsolation ==
    (pc = "returned" /\ ConfigPresent) =>
        /\ \A j \in 1..Len(files) : \E k \in 1..Len(log) : log[k].file = j
        /\ Len(ret) = Cardinality(Events("saved"))
        /\ \A k \in Events("error") :
              \A m \in 1..Len(log) :
                  (log[m].file > log[k].file /\ log[m].event = "saved") =>
                      /\ log[m].path \in Range(ret)
                      /\ log[m].path \in DOMAIN disk

C1_Witness ==
    /\ pc = "returned"
    /\ Len(log) = 2
    /\ log[1].event = "error"
    /\ log[2].event = "saved"
    /\ ret = <<log[2].path>>

\* C2: with the credentials present, a batch of N files of which K were
\* skipped as unsupported or failed returns N - K paths: the paths of the
\* saved artifacts, in the order of the files in the batch.
C2_ResultList ==
    (pc = "returned" /\ ConfigPresent) =>
        LET saved == SelectSeq(log, LAMBDA e : e.event = "saved")
            K == Cardinality(Events("unsupported") \cup Events("error"))
        IN  /\ Len(log) = Len(files)
            /\ \A k \in 1..Len(log) : log[k].file = k
            /\ Len(ret) = Len(files) - K
            /\ ret = [k \in 1..Len(saved) |-> saved[k].path]

C2_Witness ==
    /\ pc = "returned"
    /\ Len(files) = 2
    /\ Events("saved") = {1, 2}
    /\ Len(ret) = 2
    /\ ret[1] # ret[2]

\* C5: with the endpoint or the key unset or empty, the call returns the
\* empty list and never enters the loop: temp_dir is not created, no
\* artifact is written and no stream is read (the positions stay at 0 as
\* long as file_check_num has not moved them).
C5_MissingConfig ==
    ~ConfigPresent =>
        /\ pc \in {"idle", "returned"}
        /\ ret = <<>>
        /\ ~dirExists
        /\ disk = <<>>
        /\ extracted_file_paths = <<>>
        /\ (check = NoCheck => \A i \in 1..Len(files) : pos[i] = 0)

C5_Witness ==
    /\ pc = "returned"
    /\ Truthy(env.endpoint) /\ ~Truthy(env.key)
    /\ Len(files) = 2
    /\ ret = <<>>

\* C3: whenever file_check_num returns, with a count or with -1, the
\* stream of its file stands at offset 0.
C3_StreamReset ==
    [][\A i \in 1..Len(files) :
          (file_check_num(i) /\ ~check'.raised) => pos'[i] = 0]_vars

\* C4: file_check_num raises nothing: it returns an integer for every
\* name, and -1 when the extension is unsupported (or there is none) or
\* the parse or decode fails.
C4_NeverRaises ==
    check.file # 0 =>
        /\ ~check.raised
        /\ (~allowed_files(files[check.file].name) \/ check.logged = "error")
              => check.value = -1

\* C6: at return every path of the result names a file that exists and
\* holds the whole text extracted from a file that was saved, also when two
\* files of the batch share one artifact path.
C6_ArtifactIntegrity ==
    pc = "returned" =>
        \A k \in 1..Len(ret) :
            /\ ret[k] \in DOMAIN disk
            /\ \E m \in Events("saved") :
                  log[m].path = ret[k] /\ disk[ret[k]] = log[m].text

\* C9: on a .txt handle with valid UTF-8 content c every call sees all of
\* c: file_check_num returns the number of lines of c, an extraction
\* saves exactly c, and the extractor leaves the stream at its start.
C9_Rereadable ==
    /\ (check.file # 0 /\ IsTxtUpload(files[check.file])
            /\ Decodable(files[check.file].data))
          => (~check.raised /\ check.value = splitlines_len(files[check.file].data))
    /\ \A m \in Events("saved") :
          (IsTxtUpload(files[log[m].file]) /\ Decodable(files[log[m].file].data))
              => log[m].text = files[log[m].file].data
    /\ pc = "returned" =>
          \A m \in Events("saved") :
              (IsTxtUpload(files[log[m].file]) /\ Decodable(files[log[m].file].data))
                  => pos[log[m].file] = 0

----------------------------------------------------------------------------
(* Two calls of extract_contents_from_doc at once (SpecConcurrent): two    *)
(* sessions, each with one file of its own, the same temp_dir and the same *)
(* sanitized base name. Each call has extracted its text and goes through  *)
(* lines 170-180: open, write and close, append and return. A step of one  *)
(* call may fall between any two steps of the other.                       *)

Calls == {1, 2}

ConcFrame ==
    /\ UNCHANGED <<env, files, pos, dirExists, pc, idx, extracted_file_paths,
                   ret, log, check>>
    /\ UNCHANGED <<allowedVars, chunkVars>>

shared_path == artifact_path(<<"a">>)

\* the texts the two extractions may have produced
ConcTexts == { <<"x">>, <<"y", "y">>, <<"z", "\n", "z">>, <<"w", "\n">>,
               <<"v", "\n", "v", "\n">> }

c_open(c) ==
    /\ cpc[c] = "extracted"
    /\ disk' = open_w(disk, shared_path)
    /\ cpc' = [cpc EXCEPT ![c] = "opened"]
    /\ UNCHANGED <<ctext, cret, writes>>
    /\ ConcFrame

c_write(c) ==
    /\ cpc[c] = "opened"
    /\ disk' = write_flush(disk, shared_path, ctext[c])
    /\ writes' = Append(writes, c)
    /\ cpc' = [cpc EXCEPT ![c] = "written"]
    /\ UNCHANGED <<ctext, cret>>
    /\ ConcFrame

c_return(c) ==
    /\ cpc[c] = "written"
    /\ cret' = [cret EXCEPT ![c] = append_path(<<>>, shared_path)]
    /\ cpc' = [cpc EXCEPT ![c] = "returned"]
    /\ UNCHANGED <<disk, ctext, writes>>
    /\ ConcFrame

InitConcurrent ==
    /\ env = [endpoint |-> "set", key |-> "set"]
    /\ files = <<>>
    /\ pos = <<>>
    /\ dirExists = TRUE
    /\ disk = <<>>
    /\ pc = "idle"
    /\ idx = 0
    /\ extracted_file_paths = <<>>
    /\ ret = <<>>
    /\ log = <<>>
    /\ check = NoCheck
    /\ cpc = [c \in Calls |-> "extracted"]
    /\ ctext \in [Calls -> ConcTexts]
    /\ cret = [c \in Calls |-> <<>>]
    /\ writes = <<>>
    /\ filename = <<>> /\ allowed = <<>>
    /\ text = <<>> /\ chunk_size = 0 /\ chunk_overlap = 0
    /\ chunks = NotCalled

NextConcurrent ==
    \/ \E c \in Calls : c_open(c)
    \/ \E c \in Calls : c_write(c)
    \/ \E c \in Calls : c_return(c)

SpecConcurrent == InitConcurrent /\ [][NextConcurrent]_vars

\* C10: when both calls have returned, both returned the shared path and
\* the artifact holds exactly the text of the call that wrote last.
C10_LaterWriteWins ==
    (\A c \in Calls : cpc[c] = "returned") =>
        /\ \A c \in Calls : cret[c] = <<shared_path>>
        /\ disk[shared_path] = ctext[writes[Len(writes)]]

----------------------------------------------------------------------------
(* allowed_files as an operation (SpecAllowed).                            *)

NameAlphabet == {".", "p", "d", "f", "t", "x", "P"}

InitAllowed ==
    /\ env = [endpoint |-> "set", key |-> "set"]
    /\ files = <<>>
    /\ pos = <<>>
    /\ dirExists = FALSE
    /\ disk = <<>>
    /\ pc = "idle"
    /\ idx = 0
    /\ extracted_file_paths = <<>>
    /\ ret = <<>>
    /\ log = <<>>
    /\ check = NoCheck
    /\ cpc = <<>> /\ ctext = <<>> /\ cret = <<>> /\ writes = <<>>
    /\ filename \in SeqsUpTo(NameAlphabet, MaxNameLen)
    /\ allowed = <<>>
    /\ text = <<>> /\ chunk_size = 0 /\ chunk_overlap = 0
    /\ chunks = NotCalled

call_allowed_files ==
    /\ allowed = <<>>
    /\ allowed' = <<allowed_files(filename)>>
    /\ UNCHANGED <<filename, extractVars, concVars, chunkVars>>

NextAllowed == call_allowed_files

SpecAllowed == InitAllowed /\ [][NextAllowed]_vars

\* C7: allowed_files(filename) is true exactly when filename has a "." and
\* the text after its last ".", lowercased, is pdf, txt or pptx; a name
\* with no "." gives false.
C7_AllowedFiles ==
    allowed # <<>> =>
        /\ allowed[1] \in BOOLEAN
        /\ allowed[1] <=>
              \E i \in 1..Len(filename) :
                  /\ filename[i] = "."
                  /\ \A j \in (i + 1)..Len(filename) : filename[j] # "."
                  /\ [k \in 1..(Len(filename) - i) |-> LowerChar(filename[i + k])]
                        \in {<<"p", "d", "f">>, <<"t", "x", "t">>, <<"p", "p", "t", "x">>}

C7_Witness ==
    /\ allowed = <<TRUE>>
    /\ filename = <<".", "P", "d", "f">>

----------------------------------------------------------------------------
(* chunk_document (SpecChunk): RecursiveCharacterTextSplitter.split_text   *)
(* as chunk_document configures it: length_function=len, the five          *)
(* separators, and the splitter's defaults keep_separator=True and         *)
(* strip_whitespace=True.                                                  *)

separators == <<"\n", " ", "?", ".", "!">>

TextAlphabet == {"a", " ", "\n", "?", "."}

\* the characters str.strip() removes, among those of the model
Whitespace == {" ", "\n"}

RECURSIVE lstrip(_)
lstrip(s) == IF s # <<>> /\ Head(s) \in Whitespace THEN lstrip(Tail(s)) ELSE s

RECURSIVE rstrip(_)
rstrip(s) ==
    IF s # <<>> /\ s[Len(s)] \in Whitespace
    THEN rstrip(SubSeq(s, 1, Len(s) - 1)) ELSE s

strip(s) == rstrip(lstrip(s))

RECURSIVE concat(_)
concat(ss) == IF ss = <<>> THEN <<>> ELSE Head(ss) \o concat(Tail(ss))

\* _join_docs with the strip left out: the joined text as it stands
join_docs_no_strip(docs) ==
    LET joined == concat(docs)
    IN  IF joined = <<>> THEN <<>> ELSE <<joined>>

\* _join_docs with separator "": join, strip, None when nothing is left
\* (the result is a list of no or one document)
join_docs(docs) ==
    LET joined == strip(concat(docs))
    IN  IF joined = <<>> THEN <<>> ELSE <<joined>>

\* re.split("(sep)", t) regrouped with keep_separator: each piece after
\* the first starts with the separator
RECURSIVE split_keep(_, _, _)
split_keep(t, sep, cur) ==
    IF t = <<>> THEN <<cur>>
    ELSE IF Head(t) = sep
         THEN <<cur>> \o split_keep(Tail(t), sep, <<sep>>)
         ELSE split_keep(Tail(t), sep, Append(cur, Head(t)))

\* _split_text_with_regex: the pieces, the empty ones dropped
split_text_with_regex(t, sep) ==
    SelectSeq(split_keep(t, sep, <<>>), LAMBDA piece : piece # <<>>)

\* the while loop of _merge_splits: drop leading pieces of current_doc
RECURSIVE shrink(_, _, _, _, _)
shrink(cur, total, dlen, size, overlap) ==
    IF total > overlap \/ (total + dlen > size /\ total > 0)
    THEN shrink(Tail(cur), total - Len(cur[1]), dlen, size, overlap)
    ELSE <<cur, total>>

\* the for loop of _merge_splits (separator "", so separator_len = 0)
RECURSIVE merge_loop(_, _, _, _, _, _)
merge_loop(splits, docs, cur, total, size, overlap) ==
    IF splits = <<>> THEN docs \o join_docs(cur)
    ELSE LET d == Head(splits)
             flush == total + Len(d) > size /\ Len(cur) > 0
             docs1 == IF flush THEN docs \o join_docs(cur) ELSE docs
             kept == IF flush THEN shrink(cur, total, Len(d), size, overlap)
                     ELSE <<cur, total>>
         IN  merge_loop(Tail(splits), docs1, Append(kept[1], d),
                        kept[2] + Len(d), size, overlap)

merge_splits(splits, size, overlap) == merge_loop(splits, <<>>, <<>>, 0, size, overlap)

\* the first separator found in the text, with those after it; the last
\* separator and none after it when the text holds no separator
RECURSIVE pick_separator(_, _)
pick_separator(t, seps) ==
    IF seps = <<>> THEN <<separators[Len(separators)], <<>>>>
    ELSE IF Head(seps) \in Range(t) THEN <<Head(seps), Tail(seps)>>
         ELSE pick_separator(t, Tail(seps))

RECURSIVE split_text(_, _, _, _)
RECURSIVE split_loop(_, _, _, _, _, _)

\* the for loop of _split_text over the pieces
split_loop(splits, good, final, new_seps, size, overlap) ==
    IF splits = <<>>
    THEN IF good # <<>> THEN final \o merge_splits(good, size, overlap) ELSE final
    ELSE LET piece == Head(splits)
         IN  IF Len(piece) < size
             THEN split_loop(Tail(splits), Append(good, piece), final,
                             new_seps, size, overlap)
             ELSE LET merged == IF good # <<>>
                                THEN final \o merge_splits(good, size, overlap)
                                ELSE final
                      deeper == IF new_seps = <<>> THEN <<piece>>
                                ELSE split_text(piece, new_seps, size, overlap)
                  IN  split_loop(Tail(splits), <<>>, merged \o deeper,
                                 new_seps, size, overlap)

\* _split_text(text, separators)
split_text(t, seps, size, overlap) ==
    LET picked == pick_separator(t, seps)
    IN  split_loop(split_text_with_regex(t, picked[1]), <<>>, <<>>,
                   picked[2], size, overlap)

chunk_document(t, size, overlap) == split_text(t, separators, size, overlap)

InitChunk ==
    /\ env = [endpoint |-> "set", key |-> "set"]
    /\ files = <<>>
    /\ pos = <<>>
    /\ dirExists = FALSE
    /\ disk = <<>>
    /\ pc = "idle"
    /\ idx = 0
    /\ extracted_file_paths = <<>>
    /\ ret = <<>>
    /\ log = <<>>
    /\ check = NoCheck
    /\ cpc = <<>> /\ ctext = <<>> /\ cret = <<>> /\ writes = <<>>
    /\ filename = <<>> /\ allowed = <<>>
    /\ text \in SeqsUpTo(TextAlphabet, MaxTextLen)
    /\ chunk_size \in 1..(MaxTextLen + 1)
    /\ chunk_overlap \in 0..(chunk_size + 1)
    /\ chunks = NotCalled

\* the splitter's constructor refuses an overlap larger than the chunk size
call_chunk_document ==
    /\ chunks.state = "pending"
    /\ IF chunk_overlap > chunk_size
       THEN chunks' = [state |-> "raised", value |-> <<>>]
       ELSE chunks' = [state |-> "returned",
                       value |-> chunk_document(text, chunk_size, chunk_overlap)]
    /\ UNCHANGED <<text, chunk_size, chunk_overlap>>
    /\ UNCHANGED <<extractVars, concVars, allowedVars>>

NextChunk == call_chunk_document

SpecChunk == InitChunk /\ [][NextChunk]_vars

====
